---- MODULE Spec2Model ----
(***************************************************************************)
(* Filesystem storage backend of percona-backup-mongodb                    *)
(* (pbm/storage/fs/fs.go): Save, Copy, Delete, FileStat, SourceReader and  *)
(* List over a directory tree, with the stage-then-rename write protocol   *)
(* of WriteSync.  The filesystem is modelled at the level the code uses    *)
(* it: a tree of paths, inodes that hold bytes, and open handles that      *)
(* refer to inodes (so a handle follows its inode across a rename).        *)
(*                                                                         *)
(* Strings are sequences of one-character strings, so that name + ".tmp",  *)
(* path.Join, strings.TrimPrefix and strings.HasSuffix are computed.       *)
(***************************************************************************)
EXTENDS Integers, Sequences, FiniteSets, TLC

\* ------------------------------------------------------------ bounds
MaxLen == 2
MaxOps == 2
MaxFaults == 1

Procs == {1, 2}
Bytes == {1, 2}
\* the byte streams callers save: n bytes of one value
Stamp(b, n) == [i \in 1..n |-> b]
Contents == {Stamp(1, n) : n \in 0..MaxLen}

\* ------------------------------------------------------------ strings
TmpSuffix == <<".", "t", "m", "p">>

NameA == <<"a">>
NameATmp == <<"a", ".", "t", "m", "p">>
NameD == <<"d">>
NameDA == <<"d", "/", "a">>
Names == {NameA, NameATmp, NameD, NameDA}
\* the names saved or copied to
WriteNames == {NameA, NameATmp, NameDA}

Alphabet == <<".", "/", "a", "d", "m", "p", "t">>
Rank(c) == CHOOSE i \in 1..Len(Alphabet) : Alphabet[i] = c

HasPrefix(s, pre) == Len(pre) <= Len(s) /\ SubSeq(s, 1, Len(pre)) = pre
HasSuffix(s, suf) ==
    Len(suf) <= Len(s) /\ SubSeq(s, Len(s) - Len(suf) + 1, Len(s)) = suf
TrimPrefix(s, pre) == IF HasPrefix(s, pre) THEN SubSeq(s, Len(pre) + 1, Len(s)) ELSE s

\* ------------------------------------------------------------ paths
\* A path is the sequence of its segments below fs.root; <<>> is the root.
PushSeg(acc, seg) ==
    IF seg = <<>> \/ seg = <<".">> THEN acc
    ELSE IF seg = <<".", ".">>
         THEN (IF acc = <<>> THEN acc ELSE SubSeq(acc, 1, Len(acc) - 1))
         ELSE Append(acc, seg)

RECURSIVE SplitRec(_, _, _)
SplitRec(s, cur, acc) ==
    IF s = <<>> THEN PushSeg(acc, cur)
    ELSE IF Head(s) = "/" THEN SplitRec(Tail(s), <<>>, PushSeg(acc, cur))
    ELSE SplitRec(Tail(s), Append(cur, Head(s)), acc)

\* path.Join(fs.root, name): the cleaned path, relative to the root
Join(name) == SplitRec(name, <<>>, <<>>)

\* mutant: the bytes are written under the final name itself
StagingInPlace(name) == Join(name)
\* name + ".tmp" under the root
StagingPath(name) == Join(name \o TmpSuffix)
FinalPath(name) == Join(name)

\* path.Dir
Dir(q) == IF q = <<>> THEN q ELSE SubSeq(q, 1, Len(q) - 1)
Prefixes(q) == {SubSeq(q, 1, k) : k \in 0..Len(q)}
IsUnder(q, top) == Len(top) <= Len(q) /\ SubSeq(q, 1, Len(top)) = top

RECURSIVE PathStr(_)
PathStr(q) == IF q = <<>> THEN <<>> ELSE <<"/">> \o Head(q) \o PathStr(Tail(q))

\* ------------------------------------------------------------ filesystem
\* tree: path -> 0 for a directory, the inode number of a regular file otherwise
\* inodes: inode number -> its bytes
IsDir(t, q) == q \in DOMAIN t /\ t[q] = 0
IsFile(t, q) == q \in DOMAIN t /\ t[q] # 0
Put(t, q, v) == [x \in DOMAIN t \cup {q} |-> IF x = q THEN v ELSE t[x]]
Drop(t, qs) == [x \in DOMAIN t \ qs |-> t[x]]
Children(t, q) == {x \in DOMAIN t : Len(x) = Len(q) + 1 /\ IsUnder(x, q)}

\* os.MkdirAll
MkdirAllOk(t, d) == \A a \in Prefixes(d) : a \notin DOMAIN t \/ t[a] = 0
MkdirAll(t, d) == [x \in DOMAIN t \cup Prefixes(d) |-> IF x \in DOMAIN t THEN t[x] ELSE 0]

\* os.Create = open(O_RDWR|O_CREATE|O_TRUNC)
CreateOk(t, q) == q # <<>> /\ IsDir(t, Dir(q)) /\ ~IsDir(t, q)

\* os.Remove: a file or an empty directory; anything else is left alone
Remove(t, q) ==
    IF q \in DOMAIN t /\ (t[q] # 0 \/ Children(t, q) = {}) THEN Drop(t, {q}) ELSE t

\* a removal that empties the path and leaves the path itself
RemoveAllBeneath(t, q) == Drop(t, {x \in DOMAIN t : IsUnder(x, q) /\ x # q})

\* os.RemoveAll: the path and everything beneath it; nil when nothing is there
RemoveAll(t, q) == Drop(t, {x \in DOMAIN t : IsUnder(x, q)})

\* os.Rename of a regular file: fails when the old name is gone, when the new
\* name is a directory, or when the new name's parent is missing
RenameOk(t, old, new) ==
    /\ IsFile(t, old)
    /\ new # <<>>
    /\ ~IsDir(t, new)
    /\ IsDir(t, Dir(new))
Rename(t, old, new) == IF old = new THEN t ELSE Drop(Put(t, new, t[old]), {old})

\* mutant: the write offset never advances
WriteAtStart(c, off, b) == IF c = <<>> THEN <<b>> ELSE [c EXCEPT ![1] = b]
\* write(2) of one byte at an offset; a gap is filled with zero bytes
WriteAt(c, off, b) ==
    [i \in 1..(IF Len(c) > off THEN Len(c) ELSE off + 1) |->
        IF i = off + 1 THEN b ELSE IF i <= Len(c) THEN c[i] ELSE 0]

NoHandle == [kind |-> "none", ino |-> 0, off |-> 0]
FreshIno(ins) == CHOOSE i \in 1..(Cardinality(DOMAIN ins) + 1) : i \notin DOMAIN ins

\* inodes that a name or an open handle still refers to
Live(t, hs) == ({t[q] : q \in DOMAIN t} \cup {h.ino : h \in hs}) \ {0}
Gc(ins, t, hs) == [i \in DOMAIN ins \cap Live(t, hs) |-> ins[i]]

\* what a reader sees under each path
Absent == [kind |-> "absent", data |-> <<>>]
Snapshot(t, ins) ==
    [q \in DOMAIN t |-> IF t[q] = 0 THEN [kind |-> "dir", data |-> <<>>]
                        ELSE [kind |-> "file", data |-> ins[t[q]]]]
At(view, q) == IF q \in DOMAIN view THEN view[q] ELSE Absent

VARIABLES tree, inodes, pc, call, fw, from, ret, pre, quota, faults, lastPub

\* walk: per caller, the directory entries a running List has read and not
\*       yet visited
\* disk, made: the filesystem New() is given, and what New() returned
VARIABLES walk, disk, made

vars == <<tree, inodes, pc, call, fw, from, ret, pre, quota, faults, lastPub,
          walk, disk, made>>

\* what the operations on the objects leave alone
aux == <<walk, disk, made>>

View == Snapshot(tree, inodes)

NoCall == [op |-> "none", name |-> <<>>, src |-> <<>>, data |-> <<>>]
NoRet == [err |-> "none", name |-> <<>>, size |-> 0, data |-> <<>>, list |-> <<>>]
Ret(e) == [NoRet EXCEPT !.err = e]

\* ------------------------------------------------------------ initial state
\* no New() is running in the specifications of the object operations
NoDisk == [x \in {} |-> 0]
NoRoot == [err |-> "none", root |-> <<>>, given |-> <<>>, before |-> NoDisk]

\* New() on a directory that may already hold objects of earlier runs.
OldContent == <<2, 1>>
InitObjects == {<<>>, <<NameA, NameDA>>}

RECURSIVE InitTree(_, _)
InitTree(objs, k) ==
    IF k = 0 THEN [x \in {<<>>} |-> 0]
    ELSE Put(MkdirAll(InitTree(objs, k - 1), Dir(Join(objs[k]))), Join(objs[k]), k)

InitWith(calls) ==
    /\ \E objs \in InitObjects :
          /\ tree = InitTree(objs, Len(objs))
          /\ inodes = [i \in 1..Len(objs) |-> OldContent]
    /\ pc = [p \in Procs |-> "idle"]
    /\ call = [p \in Procs |-> NoCall]
    /\ fw = [p \in Procs |-> NoHandle]
    /\ from = [p \in Procs |-> NoHandle]
    /\ ret = [p \in Procs |-> NoRet]
    /\ pre = [p \in Procs |-> Snapshot(tree, inodes)]
    /\ quota = calls
    /\ faults = 0
    /\ lastPub = 0
    /\ walk = [p \in Procs |-> <<>>]
    /\ disk = NoDisk
    /\ made = NoRoot

\* an injected I/O error (permissions, disk, interrupted sync) of the next step
FaultChoices == IF faults < MaxFaults THEN {FALSE, TRUE} ELSE {FALSE}
Charge(f) == faults' = faults + (IF f THEN 1 ELSE 0)
Handles(w, r) == {w[p] : p \in Procs} \cup {r[p] : p \in Procs}

\* ------------------------------------------------------------ Save, Copy
\* FS.Save entered: the two paths are computed, WriteSync is about to run
SaveBegin(p, name, data) ==
    /\ pc[p] = "idle"
    /\ quota[p] > 0
    /\ quota' = [quota EXCEPT ![p] = @ - 1]
    /\ call' = [call EXCEPT ![p] = [op |-> "save", name |-> name, src |-> <<>>, data |-> data]]
    /\ pre' = [pre EXCEPT ![p] = View]
    /\ ret' = [ret EXCEPT ![p] = NoRet]
    /\ pc' = [pc EXCEPT ![p] = "mkdir"]
    /\ UNCHANGED <<tree, inodes, fw, from, faults, lastPub>>
    /\ UNCHANGED aux

\* FS.Copy entered: os.Open(src); a failure returns the wrapped OS error
CopyBegin(p, src, dst) ==
    /\ pc[p] = "idle"
    /\ quota[p] > 0
    /\ quota' = [quota EXCEPT ![p] = @ - 1]
    /\ call' = [call EXCEPT ![p] = [op |-> "copy", name |-> dst, src |-> src, data |-> <<>>]]
    /\ pre' = [pre EXCEPT ![p] = View]
    /\ \E f \in FaultChoices :
          LET q == Join(src)
              ok == ~f /\ q \in DOMAIN tree
          IN /\ Charge(f)
             /\ from' = [from EXCEPT ![p] =
                            IF ~ok THEN NoHandle
                            ELSE IF tree[q] = 0 THEN [kind |-> "dir", ino |-> 0, off |-> 0]
                            ELSE [kind |-> "file", ino |-> tree[q], off |-> 0]]
             /\ ret' = [ret EXCEPT ![p] = IF ok THEN NoRet ELSE Ret("IOFailure")]
             /\ pc' = [pc EXCEPT ![p] = IF ok THEN "mkdir" ELSE "idle"]
    /\ inodes' = Gc(inodes, tree, Handles(fw, from'))
    /\ UNCHANGED <<tree, fw, lastPub>>
    /\ UNCHANGED aux

\* WriteSync: os.MkdirAll(path.Dir(filepath))
WSMkdirAll(p) ==
    /\ pc[p] = "mkdir"
    /\ \E f \in FaultChoices :
          LET d == Dir(StagingPath(call[p].name))
              ok == ~f /\ MkdirAllOk(tree, d)
          IN /\ Charge(f)
             /\ tree' = IF ok THEN MkdirAll(tree, d) ELSE tree
             /\ pc' = [pc EXCEPT ![p] = IF ok THEN "create" ELSE "remove"]
    /\ UNCHANGED <<inodes, call, fw, from, ret, pre, quota, lastPub>>
    /\ UNCHANGED aux

\* WriteSync: os.Create(filepath)
WSCreate(p) ==
    /\ pc[p] = "create"
    /\ \E f \in FaultChoices :
          LET q == StagingPath(call[p].name)
              ok == ~f /\ CreateOk(tree, q)
              ino == IF q \in DOMAIN tree THEN tree[q] ELSE FreshIno(inodes)
          IN /\ Charge(f)
             /\ tree' = IF ok THEN Put(tree, q, ino) ELSE tree
             /\ inodes' = IF ok THEN Put(inodes, ino, <<>>) ELSE inodes
             /\ fw' = [fw EXCEPT ![p] =
                          IF ok THEN [kind |-> "file", ino |-> ino, off |-> 0] ELSE NoHandle]
             /\ pc' = [pc EXCEPT ![p] = IF ok THEN "chmod" ELSE "remove"]
    /\ UNCHANGED <<call, from, ret, pre, quota, lastPub>>
    /\ UNCHANGED aux

\* WriteSync returns: the deferred fw.Close() runs
CloseFw(p) ==
    /\ fw' = [fw EXCEPT ![p] = NoHandle]
    /\ inodes' = Gc(inodes, tree, Handles(fw', from))

\* WriteSync: os.Chmod(filepath, 0o644), by name
WSChmod(p) ==
    /\ pc[p] = "chmod"
    /\ \E f \in FaultChoices :
          LET ok == ~f /\ StagingPath(call[p].name) \in DOMAIN tree
          IN /\ Charge(f)
             /\ IF ok THEN UNCHANGED <<fw, inodes>> ELSE CloseFw(p)
             /\ pc' = [pc EXCEPT ![p] = IF ok THEN "copy" ELSE "remove"]
    /\ UNCHANGED <<tree, call, from, ret, pre, quota, lastPub>>
    /\ UNCHANGED aux

\* the next read of the data stream: a byte, end of stream, or an error
\* (Save: the caller's stream; Copy: the handle opened on the source)
NextRead(p) ==
    IF call[p].op = "save"
    THEN IF fw[p].off < Len(call[p].data)
         THEN [kind |-> "byte", b |-> call[p].data[fw[p].off + 1]]
         ELSE [kind |-> "eof", b |-> 0]
    ELSE IF from[p].kind # "file" THEN [kind |-> "err", b |-> 0]
    ELSE IF from[p].off < Len(inodes[from[p].ino])
         THEN [kind |-> "byte", b |-> inodes[from[p].ino][from[p].off + 1]]
         ELSE [kind |-> "eof", b |-> 0]

\* WriteSync: io.Copy(fw, data), one byte per step
WSCopy(p) ==
    /\ pc[p] = "copy"
    /\ \E f \in FaultChoices :
          LET r == NextRead(p)
              kind == IF f THEN "err" ELSE r.kind
          IN /\ Charge(f)
             /\ IF kind = "byte"
                THEN /\ fw' = [fw EXCEPT ![p].off = @ + 1]
                     /\ from' = [from EXCEPT ![p].off =
                                    IF call[p].op = "copy" THEN @ + 1 ELSE @]
                     /\ inodes' = [inodes EXCEPT ![fw[p].ino] =
                                      WriteAt(@, fw[p].off, r.b)]
                     /\ pc' = pc
                ELSE IF kind = "eof"
                THEN /\ pc' = [pc EXCEPT ![p] = "sync"]
                     /\ UNCHANGED <<fw, from, inodes>>
                ELSE /\ pc' = [pc EXCEPT ![p] = "remove"]
                     /\ CloseFw(p)
                     /\ UNCHANGED from
    /\ UNCHANGED <<tree, call, ret, pre, quota, lastPub>>
    /\ UNCHANGED aux

\* WriteSync: fw.Sync(), then return
WSSync(p) ==
    /\ pc[p] = "sync"
    /\ \E f \in FaultChoices :
          /\ Charge(f)
          /\ pc' = [pc EXCEPT ![p] = IF f THEN "remove" ELSE "rename"]
    /\ CloseFw(p)
    /\ UNCHANGED <<tree, call, from, ret, pre, quota, lastPub>>
    /\ UNCHANGED aux

\* mutant: the cleanup removes the final name instead of the staging file
CleanupFinal(p) ==
    /\ pc[p] = "remove"
    /\ tree' = Remove(tree, FinalPath(call[p].name))
    /\ inodes' = Gc(inodes, tree', Handles(fw, from))
    /\ ret' = [ret EXCEPT ![p] = Ret("IOFailure")]
    /\ pc' = [pc EXCEPT ![p] = "idle"]
    /\ UNCHANGED <<call, fw, from, pre, quota, faults, lastPub>>
    /\ UNCHANGED aux

\* WriteSync failed: os.Remove(filepath), return the failure
Cleanup(p) ==
    /\ pc[p] = "remove"
    /\ tree' = Remove(tree, StagingPath(call[p].name))
    /\ inodes' = Gc(inodes, tree', Handles(fw, from))
    /\ ret' = [ret EXCEPT ![p] = Ret("IOFailure")]
    /\ pc' = [pc EXCEPT ![p] = "idle"]
    /\ UNCHANGED <<call, fw, from, pre, quota, faults, lastPub>>
    /\ UNCHANGED aux

\* os.Rename(filepath, finalpath), return its result
Publish(p) ==
    /\ pc[p] = "rename"
    /\ \E f \in FaultChoices :
          LET old == StagingPath(call[p].name)
              new == FinalPath(call[p].name)
              ok == ~f /\ RenameOk(tree, old, new)
          IN /\ Charge(f)
             /\ tree' = IF ok THEN Rename(tree, old, new) ELSE tree
             /\ ret' = [ret EXCEPT ![p] = IF ok THEN Ret("ok") ELSE Ret("IOFailure")]
             /\ lastPub' = IF ok THEN p ELSE lastPub
    /\ inodes' = Gc(inodes, tree', Handles(fw, from))
    /\ pc' = [pc EXCEPT ![p] = "idle"]
    /\ UNCHANGED <<call, fw, from, pre, quota>>
    /\ UNCHANGED aux

\* the process is killed inside a save or copy, before the rename
InWrite(p) == pc[p] \in {"mkdir", "create", "chmod", "copy", "sync", "rename", "remove"}
Crash(p) ==
    /\ InWrite(p)
    /\ faults < MaxFaults
    /\ faults' = faults + 1
    /\ pc' = [pc EXCEPT ![p] = "crashed"]
    /\ fw' = [fw EXCEPT ![p] = NoHandle]
    /\ from' = [from EXCEPT ![p] = NoHandle]
    /\ inodes' = Gc(inodes, tree, Handles(fw', from'))
    /\ UNCHANGED <<tree, call, ret, pre, quota, lastPub>>
    /\ UNCHANGED aux

\* the process is started again after a crash
Recover(p) ==
    /\ pc[p] = "crashed"
    /\ pc' = [pc EXCEPT ![p] = "idle"]
    /\ UNCHANGED <<tree, inodes, call, fw, from, ret, pre, quota, faults, lastPub>>
    /\ UNCHANGED aux

\* ------------------------------------------------------------ Delete
\* the error of a path lookup: through a regular file, or not there
LookupErr(t, q) ==
    IF q \in DOMAIN t THEN "nil"
    ELSE IF \E a \in Prefixes(q) : IsFile(t, a) THEN "ENOTDIR"
    ELSE "ENOENT"

\* the error os.RemoveAll returns: nil when the path does not exist
RemoveAllErr(t, q, f) ==
    IF f THEN "EIO" ELSE IF LookupErr(t, q) = "ENOTDIR" THEN "ENOTDIR" ELSE "nil"

\* FS.Delete's result for the error of os.RemoveAll
DeleteRet(err) ==
    IF err = "ENOENT" THEN Ret("NotFound")
    ELSE IF err = "nil" THEN Ret("ok")
    ELSE Ret("IOFailure")

Delete(p, name) ==
    /\ pc[p] = "idle"
    /\ quota[p] > 0
    /\ quota' = [quota EXCEPT ![p] = @ - 1]
    /\ call' = [call EXCEPT ![p] = [op |-> "delete", name |-> name, src |-> <<>>, data |-> <<>>]]
    /\ pre' = [pre EXCEPT ![p] = View]
    /\ \E f \in FaultChoices :
          LET q == Join(name)
              err == RemoveAllErr(tree, q, f)
          IN /\ Charge(f)
             /\ tree' = IF err = "nil" THEN RemoveAll(tree, q) ELSE tree
             /\ ret' = [ret EXCEPT ![p] = DeleteRet(err)]
    /\ inodes' = Gc(inodes, tree', Handles(fw, from))
    /\ UNCHANGED <<pc, fw, from, lastPub>>
    /\ UNCHANGED aux

\* ------------------------------------------------------------ FileStat
\* the size os.Stat reports for a directory depends on the filesystem
DirSizes == {0, 4096}

\* mutant: the zero-size check is missing
StatResultNoEmpty(t, ins, name, f, dsize) ==
    LET q == Join(name)
        err == IF LookupErr(t, q) # "nil" THEN LookupErr(t, q) ELSE IF f THEN "EIO" ELSE "nil"
        size == IF t[q] = 0 THEN dsize ELSE Len(ins[t[q]])
    IN IF err = "ENOENT" THEN Ret("NotFound")
       ELSE IF err # "nil" THEN Ret("IOFailure")
       ELSE [NoRet EXCEPT !.err = "ok", !.size = size]

\* FS.FileStat's result; inf.Name is never assigned
StatResult(t, ins, name, f, dsize) ==
    LET q == Join(name)
        err == IF LookupErr(t, q) # "nil" THEN LookupErr(t, q) ELSE IF f THEN "EIO" ELSE "nil"
        size == IF t[q] = 0 THEN dsize ELSE Len(ins[t[q]])
    IN IF err = "ENOENT" THEN Ret("NotFound")
       ELSE IF err # "nil" THEN Ret("IOFailure")
       ELSE IF size = 0 THEN Ret("Empty")
       ELSE [NoRet EXCEPT !.err = "ok", !.size = size]

FileStat(p, name) ==
    /\ pc[p] = "idle"
    /\ quota[p] > 0
    /\ quota' = [quota EXCEPT ![p] = @ - 1]
    /\ call' = [call EXCEPT ![p] = [op |-> "stat", name |-> name, src |-> <<>>, data |-> <<>>]]
    /\ pre' = [pre EXCEPT ![p] = View]
    /\ \E f \in FaultChoices, dsize \in DirSizes :
          /\ Charge(f)
          /\ ret' = [ret EXCEPT ![p] = StatResult(tree, inodes, name, f, dsize)]
    /\ UNCHANGED <<tree, inodes, pc, fw, from, lastPub>>
    /\ UNCHANGED aux

\* ------------------------------------------------------------ SourceReader
\* FS.SourceReader and the stream read to its end; reading a directory fails
ReadResult(t, ins, name, f) ==
    LET q == Join(name)
        err == IF LookupErr(t, q) # "nil" THEN LookupErr(t, q) ELSE IF f THEN "EIO" ELSE "nil"
    IN IF err = "ENOENT" THEN Ret("NotFound")
       ELSE IF err # "nil" THEN Ret("IOFailure")
       ELSE IF t[q] = 0 THEN Ret("ReadFailure")
       ELSE [NoRet EXCEPT !.err = "ok", !.data = ins[t[q]]]

SourceReader(p, name) ==
    /\ pc[p] = "idle"
    /\ quota[p] > 0
    /\ quota' = [quota EXCEPT ![p] = @ - 1]
    /\ call' = [call EXCEPT ![p] = [op |-> "read", name |-> name, src |-> <<>>, data |-> <<>>]]
    /\ pre' = [pre EXCEPT ![p] = View]
    /\ \E f \in FaultChoices :
          /\ Charge(f)
          /\ ret' = [ret EXCEPT ![p] = ReadResult(tree, inodes, name, f)]
    /\ UNCHANGED <<tree, inodes, pc, fw, from, lastPub>>
    /\ UNCHANGED aux

\* ------------------------------------------------------------ List
RECURSIVE StrLess(_, _)
StrLess(a, b) ==
    IF b = <<>> THEN FALSE
    ELSE IF a = <<>> THEN TRUE
    ELSE IF Head(a) = Head(b) THEN StrLess(Tail(a), Tail(b))
    ELSE Rank(Head(a)) < Rank(Head(b))

FirstEntry(S) == CHOOSE x \in S : \A y \in S \ {x} : StrLess(x[Len(x)], y[Len(y)])

\* filepath.WalkDir: the regular files it visits, in lexical order
RECURSIVE Walk(_, _), WalkEntries(_, _)
Walk(t, q) == IF t[q] # 0 THEN <<q>> ELSE WalkEntries(t, Children(t, q))
WalkEntries(t, S) ==
    IF S = {} THEN <<>>
    ELSE LET m == FirstEntry(S) IN Walk(t, m) \o WalkEntries(t, S \ {m})

\* a List that names a file by its path below the root, whatever the prefix
RelNameFromRoot(q, base) == IF q = <<>> THEN <<>> ELSE Tail(PathStr(q))

\* the name List gives a visited file: its path below base, slash-separated
RelName(q, base) ==
    LET f == TrimPrefix(PathStr(q), PathStr(base))
    IN IF f # <<>> /\ Head(f) = "/" THEN Tail(f) ELSE f

RECURSIVE Collect(_, _, _, _)
Collect(w, ins_t, base, suffix) ==
    IF w = <<>> THEN <<>>
    ELSE LET f == RelName(Head(w), base)
             rest == Collect(Tail(w), ins_t, base, suffix)
         IN IF f # <<>> /\ HasSuffix(f, suffix)
            THEN <<[name |-> f, size |-> Len(ins_t[Head(w)].data)]>> \o rest
            ELSE rest

\* a List that reports a missing prefix like any other traversal error
ListResultStrict(t, ins, prefix, suffix, f) ==
    LET base == Join(prefix)
    IN IF LookupErr(t, base) # "nil" \/ f THEN Ret("IOFailure")
       ELSE [NoRet EXCEPT !.err = "ok",
                          !.list = Collect(Walk(t, base), Snapshot(t, ins), base, suffix)]

\* FS.List's result
ListResult(t, ins, prefix, suffix, f) ==
    LET base == Join(prefix)
        err == IF LookupErr(t, base) # "nil" THEN LookupErr(t, base)
               ELSE IF f THEN "EIO" ELSE "nil"
    IN IF err = "ENOENT" THEN Ret("ok")
       ELSE IF err # "nil" THEN Ret("IOFailure")
       ELSE [NoRet EXCEPT !.err = "ok",
                          !.list = Collect(Walk(t, base), Snapshot(t, ins), base, suffix)]

ListPrefixes == {<<>>, NameD}
ListSuffixes == {<<>>, TmpSuffix, NameA}

List(p, prefix, suffix) ==
    /\ pc[p] = "idle"
    /\ quota[p] > 0
    /\ quota' = [quota EXCEPT ![p] = @ - 1]
    /\ call' = [call EXCEPT ![p] = [op |-> "list", name |-> prefix, src |-> suffix, data |-> <<>>]]
    /\ pre' = [pre EXCEPT ![p] = View]
    /\ \E f \in FaultChoices :
          /\ Charge(f)
          /\ ret' = [ret EXCEPT ![p] = ListResult(tree, inodes, prefix, suffix, f)]
    /\ UNCHANGED <<tree, inodes, pc, fw, from, lastPub>>
    /\ UNCHANGED aux

\* ------------------------------------------------------------ specifications
Step(p, N, W, C) ==
    \/ \E n \in W, d \in C : SaveBegin(p, n, d)
    \/ \E s \in N, d \in W : CopyBegin(p, s, d)
    \/ WSMkdirAll(p)
    \/ WSCreate(p)
    \/ WSChmod(p)
    \/ WSCopy(p)
    \/ WSSync(p)
    \/ Cleanup(p)
    \/ Publish(p)
    \/ Crash(p)
    \/ Recover(p)
    \/ \E n \in N : Delete(p, n)
    \/ \E n \in N : FileStat(p, n)
    \/ \E n \in N : SourceReader(p, n)
    \/ \E pr \in ListPrefixes, su \in ListSuffixes : List(p, pr, su)

\* two callers, one call each, their steps interleaved in any order; caller p
\* saves bytes of value p, so that the writers' contents differ
ConcNames == {NameA, NameATmp}
ConcContents(p) == {Stamp(p, n) : n \in 1..MaxLen}
Init == InitWith([p \in Procs |-> 1])
Next == \E p \in Procs : Step(p, ConcNames, ConcNames, ConcContents(p))
Spec == Init /\ [][Next]_vars

\* one caller, one operation at a time
InitSeq == InitWith([p \in Procs |-> IF p = 1 THEN MaxOps ELSE 0])
NextSeq == Step(1, Names, WriteNames, Contents)
SeqSpec == InitSeq /\ [][NextSeq]_vars

\* ------------------------------------------------------------ properties
Writing(p) == call[p].op \in {"save", "copy"}
Returned(p) == pc[p] = "idle" /\ ret[p].err # "none"
Final(p) == FinalPath(call[p].name)
Staging(p) == StagingPath(call[p].name)
File(c) == [kind |-> "file", data |-> c]
\* the bytes the write is to publish: the saved stream, or the source object
\* as it was when the copy began
NewContent(p) ==
    IF call[p].op = "save" THEN call[p].data ELSE At(pre[p], Join(call[p].src)).data

\* nothing exists at path q, and no regular file stands on the way to it
NothingAt(view, q) == \A a \in Prefixes(q) : At(view, a).kind \notin {"file"} /\ q \notin DOMAIN view

\* every regular file other than path q is as it was when the call of p began
OthersUntouched(p, q) ==
    \A x \in (DOMAIN View \cup DOMAIN pre[p]) \ {q} :
        (At(View, x).kind = "file" \/ At(pre[p], x).kind = "file")
            => At(View, x) = At(pre[p], x)

\* C1: with a single writer, at every step of a save or copy (and after it)
\* the final name shows either what it showed before the write began or the
\* complete new content (the saved bytes, the bytes of the copied object);
\* never a partial write, never a gap where an object was.  (Stated for the
\* runs in which no step suffers an I/O error and no process is killed.)
C1_AtomicVisibility ==
    \A p \in Procs :
        (Writing(p) /\ faults = 0) =>
            /\ At(View, Final(p)) \in {At(pre[p], Final(p)), File(NewContent(p))}
            /\ (At(pre[p], Final(p)).kind = "file" => At(View, Final(p)).kind = "file")

\* C2: when two saves to one name interleave, the final name never shows
\* anything but the content from before the saves or the complete bytes of
\* one of the two, and once both have returned it holds the bytes of the save
\* whose rename completed last.  (Stated for the runs in which no step
\* suffers an I/O error and no process is killed.)
C2_LastRenameWinsNoTornWrite ==
    \A p, q \in Procs :
        (p # q /\ call[p].op = "save" /\ call[q].op = "save"
              /\ call[p].name = call[q].name /\ faults = 0) =>
            /\ At(View, Final(p)) \in
                   {At(pre[p], Final(p)), At(pre[q], Final(p)),
                    File(call[p].data), File(call[q].data)}
            /\ (Returned(p) /\ Returned(q) /\ lastPub = p)
                   => At(View, Final(p)) = File(call[p].data)

\* C3: a save killed at any step before its rename leaves the final name as it
\* was when the save began, and leaves every other regular file as it was
\* except the staging file name.tmp.
C3_CrashLeavesFinalUntouched ==
    \A p \in Procs :
        (pc[p] = "crashed" /\ call[p].op = "save") =>
            /\ At(View, Final(p)) = At(pre[p], Final(p))
            /\ OthersUntouched(p, Staging(p))

\* C3 witness: killed after bytes were staged, over an existing object; the
\* staging file is left behind
C3_Witness ==
    \E p \in Procs :
        /\ pc[p] = "crashed" /\ call[p].op = "save"
        /\ At(pre[p], Final(p)).kind = "file"
        /\ At(View, Staging(p)).kind = "file"
        /\ At(View, Staging(p)).data # <<>>

\* C4: when a save or copy has returned a failure, whatever step failed, the
\* final name is as it was when the call began.
C4_FailureLeavesFinalUntouched ==
    \A p \in Procs :
        (Returned(p) /\ Writing(p) /\ ret[p].err # "ok") =>
            At(View, Final(p)) = At(pre[p], Final(p))

\* C4 witness: the rename itself failed (the staged file is still there) over
\* an existing object
C4_Witness ==
    \E p \in Procs :
        /\ Returned(p) /\ call[p].op = "save" /\ ret[p].err = "IOFailure"
        /\ At(pre[p], Final(p)).kind = "file"
        /\ At(View, Staging(p)) = File(call[p].data)
        /\ call[p].data # <<>>

\* C5: after a save has returned success, opening the name and reading the
\* stream to its end yields exactly the saved bytes.
C5_RoundTrip ==
    \A p \in Procs :
        (Returned(p) /\ call[p].op = "save" /\ ret[p].err = "ok") =>
            ReadResult(tree, inodes, call[p].name, FALSE) =
                [NoRet EXCEPT !.err = "ok", !.data = call[p].data]

\* C5 witness: a successful save of MaxLen bytes over an existing object
C5_Witness ==
    \E p \in Procs :
        /\ Returned(p) /\ call[p].op = "save" /\ ret[p].err = "ok"
        /\ Len(call[p].data) = MaxLen
        /\ At(pre[p], Final(p)).kind = "file"

\* C6: a delete of a name under which nothing exists returns NotFound.
C6_DeleteMissingIsNotFound ==
    \A p \in Procs :
        (Returned(p) /\ call[p].op = "delete"
              /\ NothingAt(pre[p], Join(call[p].name))
              /\ ret[p].err # "IOFailure")
            => ret[p].err = "NotFound"

\* C7: after a successful copy(src, dst) of an object of at least one byte, dst holds exactly the
\* bytes src held, and src still exists with those bytes.  (Stated for the
\* runs in which no step suffers an I/O error and no process is killed, so
\* that every object was put there by a successful save or copy.)
C7_CopyFidelity ==
    \A p \in Procs :
        (Returned(p) /\ call[p].op = "copy" /\ ret[p].err = "ok" /\ faults = 0
              /\ At(pre[p], Join(call[p].src)).kind = "file"
              /\ At(pre[p], Join(call[p].src)).data # <<>>) =>
            /\ At(View, Final(p)) = At(pre[p], Join(call[p].src))
            /\ At(View, Join(call[p].src)) = At(pre[p], Join(call[p].src))

\* C8: a copy whose source does not exist returns NotFound, creates no staging
\* file and leaves dst as it was.
C8_CopyMissingSourceIsNotFound ==
    \A p \in Procs :
        (Returned(p) /\ call[p].op = "copy"
              /\ NothingAt(pre[p], Join(call[p].src))) =>
            /\ ret[p].err = "NotFound"
            /\ View = pre[p]

\* C9: after a successful save of zero bytes, stat of the name fails with
\* Empty, the reader opens and yields an empty stream, and list reports the
\* name with size 0; stat of a name under which nothing exists fails with
\* NotFound.
Listed(r, fi) == \E i \in 1..Len(r.list) : r.list[i] = fi
C9_ZeroLengthPolicy ==
    /\ \A p \in Procs :
          (Returned(p) /\ call[p].op = "save" /\ ret[p].err = "ok"
                /\ call[p].data = <<>>) =>
              /\ \A ds \in DirSizes :
                    StatResult(tree, inodes, call[p].name, FALSE, ds).err = "Empty"
              /\ ReadResult(tree, inodes, call[p].name, FALSE) = Ret("ok")
              /\ ListResult(tree, inodes, <<>>, <<>>, FALSE).err = "ok"
              /\ Listed(ListResult(tree, inodes, <<>>, <<>>, FALSE),
                        [name |-> call[p].name, size |-> 0])
    /\ \A n \in Names, ds \in DirSizes :
          LookupErr(tree, Join(n)) = "ENOENT" =>
              StatResult(tree, inodes, n, FALSE, ds).err = "NotFound"

\* C9 witness: zero bytes were saved under a name in a subdirectory, while
\* another name is absent
C9_Witness ==
    \E p \in Procs :
        /\ Returned(p) /\ call[p].op = "save" /\ ret[p].err = "ok"
        /\ call[p].data = <<>>
        /\ call[p].name = NameDA
        /\ At(View, Join(NameA)).kind = "absent"

\* C10: stat of an existing object of at least one byte succeeds and returns
\* the requested name and the object's length.
C10_StatNameAndSize ==
    \A p \in Procs :
        (Returned(p) /\ call[p].op = "stat" /\ ret[p].err # "IOFailure"
              /\ At(pre[p], Join(call[p].name)).kind = "file"
              /\ At(pre[p], Join(call[p].name)).data # <<>>) =>
            /\ ret[p].err = "ok"
            /\ ret[p].name = call[p].name
            /\ ret[p].size = Len(At(pre[p], Join(call[p].name)).data)

\* ------------------------------------------------------------ List
\* the segments of a path, joined with slashes
RECURSIVE SlashJoin(_)
SlashJoin(q) ==
    IF q = <<>> THEN <<>>
    ELSE IF Len(q) = 1 THEN Head(q)
    ELSE Head(q) \o <<"/">> \o SlashJoin(Tail(q))

\* the regular files of a view that lie beneath path base
FilesBeneath(view, base) ==
    {x \in DOMAIN view : view[x].kind = "file" /\ IsUnder(x, base) /\ x # base}

\* what List is to report for file x beneath base
InfoOf(view, base, x) ==
    [name |-> SlashJoin(SubSeq(x, Len(base) + 1, Len(x))), size |-> Len(view[x].data)]

\* the prefixes the List claims are examined for: the root, names of files,
\* of directories, of nothing, and a name that runs through a regular file
ProbePrefixes == Names \cup {<<>>, NameA \o <<"/">> \o NameA}

\* a single caller that saves, deletes and lists, the list under any of the
\* prefixes above
NextList ==
    \/ \E n \in WriteNames, d \in Contents : SaveBegin(1, n, d)
    \/ WSMkdirAll(1)
    \/ WSCreate(1)
    \/ WSChmod(1)
    \/ WSCopy(1)
    \/ WSSync(1)
    \/ Cleanup(1)
    \/ Publish(1)
    \/ \E n \in Names : Delete(1, n)
    \/ \E pr \in ProbePrefixes, su \in ListSuffixes : List(1, pr, su)
ListSpec == InitSeq /\ [][NextList]_vars

\* C11: a list(prefix, suffix) that returns success returns exactly one entry
\* for every regular file beneath root/prefix whose path relative to
\* root/prefix ends with suffix, carrying that relative path as name and the
\* file's byte length as size, and returns nothing else: no directory, no
\* file outside the prefix, no file whose relative path does not end with
\* suffix.
C11_ListExactlyMatchingFiles ==
    \A p \in Procs :
        (Returned(p) /\ call[p].op = "list" /\ ret[p].err = "ok") =>
            LET v == View
                base == Join(call[p].name)
                want == {InfoOf(v, base, x) : x \in
                           {y \in FilesBeneath(v, base) :
                               HasSuffix(InfoOf(v, base, y).name, call[p].src)}}
            IN /\ {ret[p].list[i] : i \in 1..Len(ret[p].list)} = want
               /\ Len(ret[p].list) = Cardinality(want)

\* C11 witness: a list of prefix "d" with suffix "a" has returned the one file
\* d/a, named "a", while the root also holds a file "a" outside the prefix and
\* a file "a.tmp"
C11_Witness ==
    \E p \in Procs :
        /\ Returned(p) /\ call[p].op = "list" /\ ret[p].err = "ok"
        /\ call[p].name = NameD /\ call[p].src = NameA
        /\ ret[p].list = <<[name |-> NameA, size |-> Len(OldContent)]>>
        /\ IsFile(tree, Join(NameA))
        /\ IsFile(tree, Join(NameATmp))

C13_SaveDeleteAbsentOrNew ==
    \A p, q \in Procs :
        (p # q /\ Returned(p) /\ Returned(q)
              /\ call[p].op = "save" /\ call[q].op = "delete"
              /\ call[p].name = call[q].name /\ ret[q].err = "ok") =>
            At(View, Final(p)) \in {Absent, File(call[p].data)}

\* C13 witness: the delete removed the old object while the save was staging,
\* both returned success, and the name holds the complete new bytes
C13_Witness ==
    \E p, q \in Procs :
        /\ p # q /\ Returned(p) /\ Returned(q)
        /\ call[p].op = "save" /\ call[q].op = "delete"
        /\ call[p].name = call[q].name
        /\ ret[p].err = "ok" /\ ret[q].err = "ok"
        /\ At(pre[q], Final(p)) = File(OldContent)
        /\ At(pre[q], Staging(p)).kind = "file"
        /\ Len(call[p].data) = MaxLen
        /\ At(View, Final(p)) = File(call[p].data)

\* ------------------------------------------------------------ staging
\* C14: once a save or copy has returned, with success or with a failure at
\* any step, the failed rename included, no file exists at its staging name
\* name.tmp.  (Stated for a single caller.)
C14_NoStagingAfterReturn ==
    \A p \in Procs :
        (Returned(p) /\ Writing(p)) => Staging(p) \notin DOMAIN tree

\* ------------------------------------------------------------ the root
\* a single caller whose object names include the empty name
RootNames == {<<>>, NameA}
NextRoot == Step(1, RootNames, RootNames, Contents)
RootSpec == InitSeq /\ [][NextRoot]_vars

\* C15: in every state reachable by calls with any object names, the empty
\* name included, the root exists and is a directory; no operation removes
\* or replaces it.
C15_RootAlwaysDirectory == IsDir(tree, <<>>)

\* ------------------------------------------------------------ New
\* The filesystem New() is given: the directory "/" holds up to three entries
\* l, m, r, each missing, a directory, a regular file or a symbolic link to
\* one of the three (itself included); a directory may get the child c.
\* A path is the sequence of its segments below "/".
TopSegs == {"l", "m", "r"}
DiskPaths == {<<n>> : n \in TopSegs} \cup {<<n, "c">> : n \in TopSegs}
Missing == [kind |-> "none", to |-> <<>>]
DirEnt == [kind |-> "dir", to |-> <<>>]
FileEnt == [kind |-> "file", to |-> <<>>]
LinkTo(q) == [kind |-> "link", to |-> q]
TopEnts == {Missing, DirEnt, FileEnt} \cup {LinkTo(<<n>>) : n \in TopSegs}
Disks == {[q \in DiskPaths |-> IF Len(q) = 1 THEN top[q[1]] ELSE Missing] :
             top \in [TopSegs -> TopEnts]}
\* opts.Path
ConfPaths == DiskPaths

Ent(d, q) == IF q = <<>> THEN DirEnt ELSE IF q \in DOMAIN d THEN d[q] ELSE Missing
Fail(e) == [err |-> e, path |-> <<>>, ent |-> Missing]
\* more links than a chain without a loop can have
LinkFuel == Cardinality(TopSegs)

\* the path with every symbolic link in it followed (filepath.EvalSymlinks,
\* and what the kernel does for os.Stat)
RECURSIVE Real(_, _, _)
Real(d, q, fuel) ==
    IF q = <<>> THEN [err |-> "nil", path |-> <<>>, ent |-> DirEnt]
    ELSE LET par == Real(d, Dir(q), fuel)
             x == par.path \o <<q[Len(q)]>>
         IN IF par.err # "nil" THEN par
            ELSE IF par.ent.kind # "dir" THEN Fail("ENOTDIR")
            ELSE IF Ent(d, x).kind = "none" THEN Fail("ENOENT")
            ELSE IF Ent(d, x).kind = "link"
                 THEN IF fuel = 0 THEN Fail("ELOOP") ELSE Real(d, Ent(d, x).to, fuel - 1)
            ELSE [err |-> "nil", path |-> x, ent |-> Ent(d, x)]

Stat(d, q) == Real(d, q, LinkFuel)

\* os.Lstat: links in the directories on the way are followed, the last
\* segment is not
Lstat(d, q) ==
    IF q = <<>> THEN Stat(d, q)
    ELSE LET par == Stat(d, Dir(q))
             x == par.path \o <<q[Len(q)]>>
         IN IF par.err # "nil" THEN par
            ELSE IF par.ent.kind # "dir" THEN Fail("ENOTDIR")
            ELSE IF Ent(d, x).kind = "none" THEN Fail("ENOENT")
            ELSE [err |-> "nil", path |-> x, ent |-> Ent(d, x)]

\* os.Mkdir
Mkdir(d, q) ==
    LET ls == Lstat(d, q)
        par == Stat(d, Dir(q))
    IN IF ls.err = "nil" THEN [err |-> "EEXIST", disk |-> d]
       ELSE IF ls.err # "ENOENT" \/ par.err # "nil" THEN [err |-> ls.err, disk |-> d]
       ELSE [err |-> "nil", disk |-> [d EXCEPT ![par.path \o <<q[Len(q)]>>] = DirEnt]]

\* os.MkdirAll: nothing to do for a directory, ENOTDIR for anything else that
\* is there; otherwise the parent first, then the directory itself
RECURSIVE MkdirAllOn(_, _)
MkdirAllOn(d, q) ==
    IF Stat(d, q).err = "nil"
    THEN [err |-> IF Stat(d, q).ent.kind = "dir" THEN "nil" ELSE "ENOTDIR", disk |-> d]
    ELSE LET up == MkdirAllOn(d, Dir(q))
             mk == Mkdir(up.disk, q)
             again == Lstat(up.disk, q)
         IN IF up.err # "nil" THEN up
            ELSE IF mk.err # "nil" /\ again.err = "nil" /\ again.ent.kind = "dir"
                 THEN [err |-> "nil", disk |-> up.disk]
            ELSE mk

\* a New that checks what the configured path leads to and keeps the path
NewResultKeepPath(d, path) ==
    LET st == Stat(d, path)
    IN IF st.err = "ENOENT" /\ Lstat(d, path).err = "ENOENT"
       THEN [err |-> MkdirAllOn(d, path).err, root |-> path, disk |-> MkdirAllOn(d, path).disk]
       ELSE IF st.err # "nil" THEN [err |-> "stat", root |-> path, disk |-> d]
       ELSE IF st.ent.kind # "dir" THEN [err |-> "not directory", root |-> path, disk |-> d]
       ELSE [err |-> "nil", root |-> path, disk |-> d]

\* New: the error it returns ("nil" for none), the root of the FS it returns,
\* and the filesystem it leaves
NewResult(d, path) ==
    LET info == Lstat(d, path)
        mk == MkdirAllOn(d, path)
        ev == Stat(d, path)
    IN IF info.err = "ENOENT"
       THEN [err |-> IF mk.err = "nil" THEN "nil" ELSE "mkdir", root |-> path, disk |-> mk.disk]
       ELSE IF info.err # "nil" THEN [err |-> "stat", root |-> path, disk |-> d]
       ELSE IF info.ent.kind = "link"
            THEN IF ev.err # "nil" THEN [err |-> "resolve link", root |-> path, disk |-> d]
                 ELSE IF Lstat(d, ev.path).err # "nil"
                      THEN [err |-> "stat", root |-> ev.path, disk |-> d]
                 ELSE IF Lstat(d, ev.path).ent.kind # "dir"
                      THEN [err |-> "not directory", root |-> ev.path, disk |-> d]
                 ELSE [err |-> "nil", root |-> ev.path, disk |-> d]
       ELSE IF info.ent.kind # "dir" THEN [err |-> "not directory", root |-> path, disk |-> d]
       ELSE [err |-> "nil", root |-> path, disk |-> d]

NewCall(path) ==
    /\ made.err = "none"
    /\ made' = [err |-> NewResult(disk, path).err, root |-> NewResult(disk, path).root,
                given |-> path, before |-> disk]
    /\ disk' = NewResult(disk, path).disk
    /\ UNCHANGED <<tree, inodes, pc, call, fw, from, ret, pre, quota, faults, lastPub, walk>>

\* one construction on any of the filesystems; no object operation runs
InitNew ==
    /\ tree = [x \in {<<>>} |-> 0]
    /\ inodes = <<>>
    /\ pc = [p \in Procs |-> "idle"]
    /\ call = [p \in Procs |-> NoCall]
    /\ fw = [p \in Procs |-> NoHandle]
    /\ from = [p \in Procs |-> NoHandle]
    /\ ret = [p \in Procs |-> NoRet]
    /\ pre = [p \in Procs |-> Snapshot(tree, inodes)]
    /\ quota = [p \in Procs |-> 0]
    /\ faults = 0
    /\ lastPub = 0
    /\ walk = [p \in Procs |-> <<>>]
    /\ disk \in Disks
    /\ made = NoRoot
NextNew == \E path \in ConfPaths : NewCall(path)
NewSpec == InitNew /\ [][NextNew]_vars

\* the directories on the way to path q, "/" excluded
Ancestors(q) == {SubSeq(q, 1, k) : k \in 1..(Len(q) - 1)}

\* C16: New with a path that does not exist, below directories that exist or
\* can be made, creates it with every missing ancestor and returns it as
\* given; with a path that is a symbolic link it returns the link's real
\* target when that is a directory, and fails when the link cannot be
\* resolved or leads elsewhere; with a path that is not a directory it fails.
\* So whenever New succeeds the root is an existing directory, and no
\* symbolic link itself when the configured path was one.
C16_RootResolution ==
    made.err # "none" =>
        LET b == made.before
            g == made.given
            was == Lstat(b, g)
        IN /\ (was.err = "ENOENT"
                  /\ \A a \in Ancestors(g) :
                         Lstat(b, a).err = "ENOENT"
                             \/ (Stat(b, a).err = "nil" /\ Stat(b, a).ent.kind = "dir"))
                 => /\ made.err = "nil" /\ made.root = g
                    /\ \A a \in Ancestors(g) \cup {g} :
                           Stat(disk, a).err = "nil" /\ Stat(disk, a).ent.kind = "dir"
           /\ (was.err = "nil" /\ was.ent.kind = "link")
                 => IF Stat(b, g).err = "nil" /\ Stat(b, g).ent.kind = "dir"
                    THEN made.err = "nil" /\ made.root = Stat(b, g).path
                    ELSE made.err \notin {"nil", "none"}
           /\ (was.err = "nil" /\ was.ent.kind = "file") => made.err # "nil"
           /\ (was.err = "nil" /\ was.ent.kind = "dir") => made.err = "nil" /\ made.root = g
           /\ was.err \notin {"nil", "ENOENT"} => made.err # "nil"
           /\ made.err = "nil" =>
                 /\ Stat(disk, made.root).err = "nil"
                 /\ Stat(disk, made.root).ent.kind = "dir"
                 /\ (was.err = "nil" /\ was.ent.kind = "link")
                       => Lstat(disk, made.root).ent.kind = "dir"
           /\ made.err # "nil" => disk = b

\* C16 witness: the configured path l is a link to the link m, which leads to
\* the directory r; New succeeded with root r
C16_Witness ==
    /\ made.err = "nil"
    /\ made.given = <<"l">>
    /\ made.before[<<"l">>] = LinkTo(<<"m">>)
    /\ made.before[<<"m">>] = LinkTo(<<"r">>)
    /\ made.root = <<"r">>

\* ------------------------------------------------------------ frame
\* C17: once a save or copy to name n has returned, with success or failure,
\* every object other than n that existed when the call began still exists
\* with the bytes it had; in particular an object published under the name
\* n.tmp.  (Stated for a single caller and the runs in which no step suffers
\* an I/O error and no process is killed.)
C17_WriteChangesOnlyItsName ==
    \A p \in Procs :
        (Returned(p) /\ Writing(p) /\ faults = 0) =>
            \A x \in DOMAIN pre[p] \ {Final(p)} :
                pre[p][x].kind = "file" => At(View, x) = pre[p][x]

\* C18: when two saves to one name run concurrently and no step of either
\* suffers an I/O error, both return success, however their steps interleave.
C18_ConcurrentSavesBothSucceed ==
    \A p, q \in Procs :
        (p # q /\ Returned(p) /\ Returned(q) /\ faults = 0
              /\ call[p].op = "save" /\ call[q].op = "save"
              /\ call[p].name = call[q].name) =>
            ret[p].err = "ok" /\ ret[q].err = "ok"

\* ------------------------------------------------------------ List, step by step
\* filepath.WalkDir as the steps other callers can interleave with: an entry
\* read from a directory is visited later, and its metadata is read (lstat)
\* only in the visit.  An entry of walk: the path, whether the directory
\* listing said it is a directory, and whether the callback has run for it.
WalkEntry(q, isdir, seen) == [path |-> q, dir |-> isdir, seen |-> seen]

\* os.ReadDir: the entries of a directory, sorted by name
RECURSIVE ReadDir(_, _)
ReadDir(t, S) ==
    IF S = {} THEN <<>>
    ELSE LET m == FirstEntry(S)
         IN <<WalkEntry(m, t[m] = 0, FALSE)>> \o ReadDir(t, S \ {m})

\* the walk goes on with the entries w and the files found so far, or List
\* returns them when no entry is left
WalkOn(p, w, files) ==
    /\ walk' = [walk EXCEPT ![p] = w]
    /\ pc' = [pc EXCEPT ![p] = IF w = <<>> THEN "idle" ELSE "walk"]
    /\ ret' = [ret EXCEPT ![p] = [NoRet EXCEPT !.err = IF w = <<>> THEN "ok" ELSE "none",
                                               !.list = files]]

\* List fails, or the process dies in a panic
WalkEnds(p, e) ==
    /\ walk' = [walk EXCEPT ![p] = <<>>]
    /\ pc' = [pc EXCEPT ![p] = IF e = "Panic" THEN "panicked" ELSE "idle"]
    /\ ret' = [ret EXCEPT ![p] = Ret(e)]

\* WalkDir lstats the base and calls back for it
ListBegin(p, prefix, suffix) ==
    /\ pc[p] = "idle"
    /\ quota[p] > 0
    /\ quota' = [quota EXCEPT ![p] = @ - 1]
    /\ call' = [call EXCEPT ![p] = [op |-> "list", name |-> prefix, src |-> suffix, data |-> <<>>]]
    /\ pre' = [pre EXCEPT ![p] = View]
    /\ \E f \in FaultChoices :
          LET base == Join(prefix)
              err == IF LookupErr(tree, base) # "nil" THEN LookupErr(tree, base)
                     ELSE IF f THEN "EIO" ELSE "nil"
          IN /\ Charge(f)
             /\ IF err = "ENOENT" THEN WalkOn(p, <<>>, <<>>)
                ELSE IF err # "nil" THEN WalkEnds(p, "IOFailure")
                ELSE IF IsFile(tree, base) THEN WalkOn(p, <<>>, <<>>)
                ELSE WalkOn(p, <<WalkEntry(base, TRUE, TRUE)>>, <<>>)
    /\ UNCHANGED <<tree, inodes, fw, from, lastPub, disk, made>>

\* the callback for the next entry: entry.Info() lstats the path now, and
\* returns no info when the entry is gone; info.IsDir() on no info panics
ListVisit(p) ==
    /\ pc[p] = "walk"
    /\ walk[p] # <<>>
    /\ ~Head(walk[p]).seen
    /\ LET e == Head(walk[p])
           base == Join(call[p].name)
           f == RelName(e.path, base)
           rest == IF e.dir THEN <<[e EXCEPT !.seen = TRUE]>> \o Tail(walk[p])
                   ELSE Tail(walk[p])
       IN IF e.path \notin DOMAIN tree THEN WalkEnds(p, "Panic")
          ELSE IF IsFile(tree, e.path) /\ f # <<>> /\ HasSuffix(f, call[p].src)
               THEN WalkOn(p, rest, ret[p].list \o
                        <<[name |-> f, size |-> Len(inodes[tree[e.path]])]>>)
          ELSE WalkOn(p, rest, ret[p].list)
    /\ UNCHANGED <<tree, inodes, call, fw, from, pre, quota, faults, lastPub, disk, made>>

\* os.ReadDir of a directory the callback has passed; its error goes to the
\* callback, which lets the walk go on when the directory is gone
ListReadDir(p) ==
    /\ pc[p] = "walk"
    /\ walk[p] # <<>>
    /\ Head(walk[p]).seen
    /\ \E f \in FaultChoices :
          LET e == Head(walk[p])
              err == IF LookupErr(tree, e.path) # "nil" THEN LookupErr(tree, e.path)
                     ELSE IF IsFile(tree, e.path) THEN "ENOTDIR"
                     ELSE IF f THEN "EIO" ELSE "nil"
          IN /\ Charge(f)
             /\ IF err = "ENOENT" THEN WalkOn(p, Tail(walk[p]), ret[p].list)
                ELSE IF err # "nil" THEN WalkEnds(p, "IOFailure")
                ELSE WalkOn(p, ReadDir(tree, Children(tree, e.path)) \o Tail(walk[p]),
                            ret[p].list)
    /\ UNCHANGED <<tree, inodes, call, fw, from, pre, quota, lastPub, disk, made>>

\* caller 1 lists while caller 2 makes one call of any kind
NextWalk ==
    \/ \E pr \in ListPrefixes, su \in ListSuffixes : ListBegin(1, pr, su)
    \/ ListVisit(1)
    \/ ListReadDir(1)
    \/ Step(2, Names, WriteNames, Contents)
WalkSpec == Init /\ [][NextWalk]_vars

\* C19: a list that runs while another caller saves, copies or deletes always
\* ends by returning a sequence or a failure; an entry that disappears after
\* the directory was read and before its metadata is read does not make the
\* list abort abnormally.
C19_ListNeverAborts == \A p \in Procs : pc[p] # "panicked"

\* the walk in steps returns what ListResult computes in one piece, when the
\* other caller does nothing and no I/O error strikes
WalkAloneIsList ==
    (Returned(1) /\ call[1].op = "list" /\ call[2].op = "none" /\ faults = 0)
        => ret[1] = ListResult(tree, inodes, call[1].name, call[1].src, FALSE)

\* ------------------------------------------------------------ handles
\* C20: when a copy has returned, on whatever path, the handle it opened on
\* the source is closed: the call holds no open file.
C20_CopyClosesSource ==
    \A p \in Procs :
        (Returned(p) /\ call[p].op = "copy") => from[p] = NoHandle /\ fw[p] = NoHandle

====
